---- MODULE Spec2Model ----
(***************************************************************************)
(* Heat-method geodesics on a triangle mesh (trimesh_heatmethod.h).        *)
(*                                                                         *)
(* The model follows computeHeatMethodGeodesic and its verbose variant     *)
(* stage by stage.  A double is a binary floating-point number with a      *)
(* significand of MantissaBits bits, <<m, e, 0>> for m * 2^e with m odd    *)
(* (or <<0, 0, 0>>), every operation rounding its exact result toward      *)
(* zero, together with the IEEE specials +inf = <<1, 0, 1>>,               *)
(* -inf = <<-1, 0, 1>> and NaN = <<0, 0, 2>>.  Container indices are       *)
(* 0-based as in the code; a pointer to an element is its position in the  *)
(* container.                                                              *)
(***************************************************************************)
EXTENDS Integers, Sequences, FiniteSets, TLC

\* ------------------------------------------------------------------------
\* double arithmetic
\* ------------------------------------------------------------------------
\* width of the significand
MantissaBits == 12

Abs(x) == IF x < 0 THEN -x ELSE x

Sign(x) == IF x < 0 THEN -1 ELSE IF x > 0 THEN 1 ELSE 0

RECURSIVE Pow2(_)
Pow2(k) == IF k <= 0 THEN 1 ELSE 2 * Pow2(k - 1)

RECURSIVE Shrink(_, _)
\* a magnitude cut to MantissaBits bits, low bits dropped
Shrink(a, e) == IF a >= Pow2(MantissaBits) THEN Shrink(a \div 2, e + 1) ELSE <<a, e>>

RECURSIVE Strip(_, _)
\* trailing zero bits moved into the exponent
Strip(a, e) == IF a % 2 = 0 THEN Strip(a \div 2, e + 1) ELSE <<a, e>>

RECURSIVE Widen(_, _)
\* a non-zero magnitude scaled up to the full width of the significand
Widen(a, e) == IF a < Pow2(MantissaBits - 1) THEN Widen(2 * a, e - 1) ELSE <<a, e>>

\* the double nearest to m * 2^e toward zero
Round(m, e) ==
    IF m = 0 THEN <<0, 0, 0>>
    ELSE LET c == Shrink(Abs(m), e)
             t == Strip(c[1], c[2])
         IN  <<Sign(m) * t[1], t[2], 0>>

Zero == <<0, 0, 0>>
One == <<1, 0, 0>>
NaN == <<0, 0, 2>>
PosInf == <<1, 0, 1>>
FromInt(k) == Round(k, 0)

IsNaN(a) == a[3] = 2
IsInf(a) == a[3] = 1
IsFinite(a) == a[3] = 0

RNeg(a) == <<-a[1], a[2], a[3]>>

\* a finite sum; an operand below the last place of the other is absorbed
FiniteAdd(a, b) ==
    IF a[1] = 0 THEN b
    ELSE IF b[1] = 0 THEN a
    ELSE IF a[2] - b[2] > MantissaBits + 1 THEN a
    ELSE IF b[2] - a[2] > MantissaBits + 1 THEN b
    ELSE IF a[2] >= b[2] THEN Round(a[1] * Pow2(a[2] - b[2]) + b[1], b[2])
    ELSE Round(a[1] + b[1] * Pow2(b[2] - a[2]), a[2])

RAdd(a, b) ==
    IF IsNaN(a) \/ IsNaN(b) THEN NaN
    ELSE IF IsInf(a) /\ IsInf(b) THEN (IF a = b THEN a ELSE NaN)
    ELSE IF IsInf(a) THEN a
    ELSE IF IsInf(b) THEN b
    ELSE FiniteAdd(a, b)

RSub(a, b) == RAdd(a, RNeg(b))

\* inf * 0 is NaN
RMul(a, b) ==
    IF IsNaN(a) \/ IsNaN(b) THEN NaN
    ELSE IF IsInf(a) \/ IsInf(b)
         THEN (IF a[1] = 0 \/ b[1] = 0 THEN NaN ELSE <<Sign(a[1]) * Sign(b[1]), 0, 1>>)
    ELSE Round(a[1] * b[1], a[2] + b[2])

\* x/0 is +-inf, 0/0 and inf/inf are NaN, x/inf is 0
RDiv(a, b) ==
    IF IsNaN(a) \/ IsNaN(b) THEN NaN
    ELSE IF IsInf(b) THEN (IF IsInf(a) THEN NaN ELSE Zero)
    ELSE IF IsInf(a) THEN (IF b[1] < 0 THEN RNeg(a) ELSE a)
    ELSE IF b[1] = 0 THEN (IF a[1] = 0 THEN NaN ELSE <<Sign(a[1]), 0, 1>>)
    ELSE IF a[1] = 0 THEN Zero
    ELSE LET w == Widen(Abs(a[1]), a[2])
         IN  Round(Sign(a[1]) * Sign(b[1])
                       * ((w[1] * Pow2(MantissaBits + 1)) \div Abs(b[1])),
                   w[2] - b[2] - (MantissaBits + 1))

\* IEEE comparison <
RLess(a, b) ==
    /\ ~IsNaN(a)
    /\ ~IsNaN(b)
    /\ a # b
    /\ IF IsInf(a) THEN a[1] < 0
       ELSE IF IsInf(b) THEN b[1] > 0
       ELSE FiniteAdd(a, RNeg(b))[1] < 0

\* IEEE comparison ==: NaN equals nothing
REq(a, b) == ~IsNaN(a) /\ ~IsNaN(b) /\ a = b

RAbs(a) == <<Abs(a[1]), a[2], a[3]>>

RECURSIVE ISqrtFrom(_, _)
ISqrtFrom(n, r) == IF (r + 1) * (r + 1) > n THEN r ELSE ISqrtFrom(n, r + 1)

RECURSIVE ISqrt(_)
\* the integer part of the square root of n
ISqrt(n) == IF n < 4 THEN ISqrtFrom(n, 0)
            ELSE ISqrtFrom(n, 2 * ISqrt(n \div 4))

\* std::sqrt; NaN on a negative argument
RSqrt(a) ==
    IF IsNaN(a) THEN NaN
    ELSE IF IsInf(a) THEN (IF a[1] > 0 THEN a ELSE NaN)
    ELSE IF a[1] < 0 THEN NaN
    ELSE IF a[1] = 0 THEN Zero
    ELSE LET w   == Widen(a[1], a[2])
             odd == w[2] % 2 = 1
             m   == (IF odd THEN 2 * w[1] ELSE w[1]) * Pow2(MantissaBits + 2)
             e   == (IF odd THEN w[2] - 1 ELSE w[2]) - (MantissaBits + 2)
         IN  Round(ISqrt(m), e \div 2)

\* ------------------------------------------------------------------------
\* Eigen::Vector3d
\* ------------------------------------------------------------------------
VAdd(u, v) == <<RAdd(u[1], v[1]), RAdd(u[2], v[2]), RAdd(u[3], v[3])>>
VSub(u, v) == <<RSub(u[1], v[1]), RSub(u[2], v[2]), RSub(u[3], v[3])>>
VScale(u, c) == <<RMul(u[1], c), RMul(u[2], c), RMul(u[3], c)>>
VDivS(u, c) == <<RDiv(u[1], c), RDiv(u[2], c), RDiv(u[3], c)>>
VNeg(u) == <<RNeg(u[1]), RNeg(u[2]), RNeg(u[3])>>
Dot(u, v) == RAdd(RAdd(RMul(u[1], v[1]), RMul(u[2], v[2])), RMul(u[3], v[3]))
Cross(u, v) ==
    <<RSub(RMul(u[2], v[3]), RMul(u[3], v[2])),
      RSub(RMul(u[3], v[1]), RMul(u[1], v[3])),
      RSub(RMul(u[1], v[2]), RMul(u[2], v[1]))>>

VNorm(u) == RSqrt(Dot(u, u))
ZeroVec == <<Zero, Zero, Zero>>

\* the double vector of a Point3f with integer coordinates
toEigen(p) == <<FromInt(p[1]), FromInt(p[2]), FromInt(p[3])>>

\* difference of two Point3f
PSub(p, q) == <<p[1] - q[1], p[2] - q[2], p[3] - q[3]>>

\* cos(theta) / sin(theta)
cotan(v0, v1) == RDiv(Dot(v0, v1), VNorm(Cross(v0, v1)))

\* ------------------------------------------------------------------------
\* MyMesh: the vertex and face containers
\* ------------------------------------------------------------------------
\* a tuple as a 0-based container
Vec0(t) == [i \in 0..(Len(t) - 1) |-> t[i + 1]]

\* vert: positions; face: the three vertex indices of each face in winding
\* order; fdel: the deleted flag of each face.  A deleted face stays in the
\* container and keeps its vertex references.
MakeMesh(name, verts, faces, dels) ==
    [name |-> name, vert |-> Vec0(verts), face |-> Vec0(faces), fdel |-> Vec0(dels)]

\* a 3-4-5 right triangle covered twice, once per side
Pillow345 ==
    MakeMesh("Pillow345",
             << <<0, 0, 0>>, <<3, 0, 0>>, <<0, 4, 0>> >>,
             << <<0, 1, 2>>, <<0, 2, 1>> >>,
             <<FALSE, FALSE>>)

\* a right isosceles triangle covered twice: its cotangents are 0 and 1
PillowRightIsosceles ==
    MakeMesh("PillowRightIsosceles",
             << <<0, 0, 0>>, <<1, 0, 0>>, <<0, 1, 0>> >>,
             << <<0, 1, 2>>, <<0, 2, 1>> >>,
             <<FALSE, FALSE>>)

\* the corner of a cube: three right isosceles faces and an equilateral one
CornerTetra ==
    MakeMesh("CornerTetra",
             << <<0, 0, 0>>, <<1, 0, 0>>, <<0, 1, 0>>, <<0, 0, 1>> >>,
             << <<0, 2, 1>>, <<0, 1, 3>>, <<0, 3, 2>>, <<1, 2, 3>> >>,
             <<FALSE, FALSE, FALSE, FALSE>>)

\* the regular octahedron
Octahedron ==
    MakeMesh("Octahedron",
             << <<1, 0, 0>>, <<-1, 0, 0>>, <<0, 1, 0>>,
                <<0, -1, 0>>, <<0, 0, 1>>, <<0, 0, -1>> >>,
             << <<0, 2, 4>>, <<2, 1, 4>>, <<1, 3, 4>>, <<3, 0, 4>>,
                <<2, 0, 5>>, <<1, 2, 5>>, <<3, 1, 5>>, <<0, 3, 5>> >>,
             <<FALSE, FALSE, FALSE, FALSE, FALSE, FALSE, FALSE, FALSE>>)

\* three collinear vertices: both faces have zero area
PillowCollinear ==
    MakeMesh("PillowCollinear",
             << <<0, 0, 0>>, <<3, 0, 0>>, <<6, 0, 0>> >>,
             << <<0, 1, 2>>, <<0, 2, 1>> >>,
             <<FALSE, FALSE>>)

\* Pillow345 whose face container still holds a deleted face at position 0
PillowDeletedFace ==
    MakeMesh("PillowDeletedFace",
             << <<0, 0, 0>>, <<3, 0, 0>>, <<0, 4, 0>> >>,
             << <<0, 1, 2>>, <<0, 1, 2>>, <<0, 2, 1>> >>,
             <<TRUE, FALSE, FALSE>>)

\* closed, manifold, consistently wound meshes of non-degenerate triangles
\* in compact containers
ClosedMeshes == {Pillow345, PillowRightIsosceles, CornerTetra, Octahedron}

Meshes == ClosedMeshes \cup {PillowCollinear, PillowDeletedFace}

VertIdx(msh) == DOMAIN msh.vert
FaceIdx(msh) == DOMAIN msh.face
LiveFaces(msh) == {f \in FaceIdx(msh) : ~msh.fdel[f]}

\* mesh.VN(), mesh.FN(): the numbers of elements not deleted
VN(msh) == Cardinality(VertIdx(msh))
FN(msh) == Cardinality(LiveFaces(msh))

\* fp->V(j)
FV(msh, f, j) == msh.face[f][j + 1]
\* fp->V(j)->P()
FP(msh, f, j) == msh.vert[FV(msh, f, j)]

\* f->Next(z), f->Prev(z)
NextZ(z) == (z + 1) % 3
PrevZ(z) == (z + 2) % 3

Null == -1

\* ------------------------------------------------------------------------
\* vcg::tri::UpdateTopology, UpdateNormal, face::VFStarVF
\* ------------------------------------------------------------------------
\* the corners (face, local index) of vertex v among the faces not deleted
Corners(msh, v) ==
    {c \in LiveFaces(msh) \X (0..2) : FV(msh, c[1], c[2]) = v}

\* UpdateTopology::VertexFace: every face is pushed on the front of the list
\* of each of its vertices, so the head is the last face of the container
\* and each face links to the one before it
VertexFaceHead(msh, v) ==
    LET cs == Corners(msh, v)
    IN  IF cs = {} THEN <<Null, 0>>
        ELSE CHOOSE c \in cs : \A d \in cs : d[1] <= c[1]

VertexFaceNext(msh, f, j) ==
    LET cs == {c \in Corners(msh, FV(msh, f, j)) : c[1] < f}
    IN  IF cs = {} THEN <<Null, 0>>
        ELSE CHOOSE c \in cs : \A d \in cs : d[1] <= c[1]

\* UpdateTopology::FaceFace: edge z of face f joins V(z) and V(Next(z)); the
\* face across it, and the index of the edge there; a border edge points to
\* its own face
SameEdge(msh, f, z, g, y) ==
    {FV(msh, f, z), FV(msh, f, NextZ(z))} = {FV(msh, g, y), FV(msh, g, NextZ(y))}

FaceFaceAcross(msh, f, z) ==
    LET others == {c \in LiveFaces(msh) \X (0..2) :
                      c # <<f, z>> /\ SameEdge(msh, f, z, c[1], c[2])}
    IN  IF others = {} THEN <<f, z>> ELSE CHOOSE c \in others : TRUE

\* UpdateNormal::PerFaceNormalized: (V1 - V0) ^ (V2 - V0), divided by its
\* norm when the norm is positive
TriangleNormalized(msh, f) ==
    LET n == Cross(toEigen(PSub(FP(msh, f, 1), FP(msh, f, 0))),
                   toEigen(PSub(FP(msh, f, 2), FP(msh, f, 0))))
        l == VNorm(n)
    IN  IF RLess(Zero, l) THEN VDivS(n, l) ELSE n

\* face::VFStarVF: the list of a vertex from its head, following the links
RECURSIVE VFWalk(_, _, _)
VFWalk(fvf, c, acc) ==
    IF c[1] = Null THEN acc ELSE VFWalk(fvf, fvf[c[1]][c[2]], Append(acc, c))

VFStarVF(vvf, fvf, v) == VFWalk(fvf, vvf[v], <<>>)

\* ------------------------------------------------------------------------
\* Eigen::SparseMatrix<double>, Eigen::VectorXd
\* ------------------------------------------------------------------------
\* a sparse matrix is its stored coefficients: a function on the set of the
\* <<row, column>> pairs that were inserted
EmptyMatrix == [k \in {} |-> Zero]

Coeff(M, i, j) == IF <<i, j>> \in DOMAIN M THEN M[<<i, j>>] ELSE Zero

\* M.coeffRef(i, j) = x: the coefficient is inserted when it is not stored
SetCoeff(M, i, j, x) ==
    [k \in (DOMAIN M) \cup {<<i, j>>} |-> IF k = <<i, j>> THEN x ELSE M[k]]

RECURSIVE SumTo(_, _, _)
\* the coefficients of row i in columns 0 .. j, added from left to right
SumTo(M, i, j) ==
    IF j < 0 THEN Zero ELSE RAdd(SumTo(M, i, j - 1), Coeff(M, i, j))

\* M.row(i).sum() of a matrix with n columns
RowSum(M, i, n) == SumTo(M, i, n - 1)

RECURSIVE SeqSum(_)
SeqSum(s) == IF s = <<>> THEN Zero ELSE RAdd(SeqSum(SubSeq(s, 1, Len(s) - 1)), s[Len(s)])

\* ------------------------------------------------------------------------
\* buildMassMatrix
\* ------------------------------------------------------------------------
EdgeLength(p, q) == VNorm(toEigen(PSub(p, q)))

\* area of a face by Heron's formula
HeronArea(msh, f) ==
    LET p0 == FP(msh, f, 0)
        p1 == FP(msh, f, 1)
        p2 == FP(msh, f, 2)
        e0 == EdgeLength(p1, p0)
        e1 == EdgeLength(p2, p0)
        e2 == EdgeLength(p2, p1)
        s  == RDiv(RAdd(RAdd(e0, e1), e2), FromInt(2))
    IN  RSqrt(RMul(RMul(RMul(s, RSub(s, e0)), RSub(s, e1)), RSub(s, e2)))

\* a loop that skips the deleted faces
AreaLoopLiveFaces(msh) == LiveFaces(msh)

\* the faces the first loop visits: the whole container
AreaLoopFaces(msh) == FaceIdx(msh)

\* the first loop: fi->Q() = area
StoreFaceAreas(msh, q) ==
    [f \in FaceIdx(msh) |-> IF f \in AreaLoopFaces(msh) THEN HeronArea(msh, f) ELSE q[f]]

\* the sum of the areas of the star without the division by 3
DualCellAreaUndivided(q, star) ==
    SeqSum([j \in 1..Len(star) |-> q[star[j][1]]])

\* area of the dual cell of vertex i: a third of the areas stored on the
\* faces of its star
DualCellArea(q, star) ==
    RDiv(SeqSum([j \in 1..Len(star) |-> q[star[j][1]]]), FromInt(3))

RECURSIVE MassRows(_, _, _, _, _, _)
MassRows(msh, q, vvf, fvf, mass, i) ==
    IF i >= VN(msh) THEN mass
    ELSE MassRows(msh, q, vvf, fvf,
                  SetCoeff(mass, i, i, DualCellArea(q, VFStarVF(vvf, fvf, i))),
                  i + 1)

\* ------------------------------------------------------------------------
\* std::unordered_map from element pointers to ids
\* ------------------------------------------------------------------------
\* the loops "for i < VN(): ids[&mesh.vert[i]] = i" and "for i < FN():
\* ids[&mesh.face[i]] = i": the keys are the first n positions of the container
BuildIds(n) == [k \in 0..(n - 1) |-> k]

\* ids[key]: a missing key is inserted with the value 0
Lookup(ids, key) == IF key \in DOMAIN ids THEN ids[key] ELSE 0

AfterLookup(ids, key) ==
    [k \in (DOMAIN ids) \cup {key} |-> IF k \in DOMAIN ids THEN ids[k] ELSE 0]

\* ------------------------------------------------------------------------
\* vcg::face::Pos: the cursor (face f, edge z of f, vertex v of that edge)
\* ------------------------------------------------------------------------
\* Pos(fp, vp): the edge of fp that ends in vp
PosAt(msh, fp, vp) ==
    LET i == CHOOSE j \in 0..2 : FV(msh, fp, j) = vp
    IN  [f |-> fp, z |-> PrevZ(i), v |-> vp]

\* the other vertex of the edge
FlipV(msh, p) ==
    IF FV(msh, p.f, NextZ(p.z)) = p.v
    THEN [p EXCEPT !.v = FV(msh, p.f, p.z)]
    ELSE [p EXCEPT !.v = FV(msh, p.f, NextZ(p.z))]

\* the other edge of the face at the vertex
FlipE(msh, p) ==
    IF FV(msh, p.f, NextZ(p.z)) = p.v
    THEN [p EXCEPT !.z = NextZ(p.z)]
    ELSE [p EXCEPT !.z = PrevZ(p.z)]

\* the face across the edge
FlipF(ff, p) == [p EXCEPT !.f = ff[p.f][p.z][1], !.z = ff[p.f][p.z][2]]

\* ------------------------------------------------------------------------
\* buildCotanMatrix
\* ------------------------------------------------------------------------
\* the vertex opposite to vp on the current edge
WalkOpposite(msh, p) == FlipV(msh, p)

\* from vo: move to the left vertex
WalkLeft(msh, p) == FlipV(msh, FlipE(msh, p))

\* from vl back to vo, then to the right vertex across the edge
WalkRight(msh, ff, p) ==
    FlipV(msh, FlipE(msh, FlipF(ff, FlipE(msh, FlipV(msh, p)))))

\* from vr back to vp on the starting face
WalkBack(msh, ff, p) ==
    FlipV(msh, FlipF(ff, FlipE(msh, FlipV(msh, p))))

\* a move that changes the edge without crossing to the next face
WalkNextEdgeSameFace(msh, ff, p) == FlipE(msh, p)

\* move to the next edge around vp
WalkNextEdge(msh, ff, p) == FlipE(msh, FlipF(ff, p))

\* a weight that takes the left angle for both
CotanWeightLeftOnly(msh, vp, vo, vl, vr) ==
    LET elf == toEigen(PSub(msh.vert[vo], msh.vert[vl]))
        eln == toEigen(PSub(msh.vert[vp], msh.vert[vl]))
        cotan_l == cotan(elf, eln)
    IN  RDiv(RAdd(cotan_l, cotan_l), FromInt(2))

\* the value stored at (vp, vo): the mean of the cotangents of the angles at
\* vl and at vr
CotanWeight(msh, vp, vo, vl, vr) ==
    LET elf == toEigen(PSub(msh.vert[vo], msh.vert[vl]))
        eln == toEigen(PSub(msh.vert[vp], msh.vert[vl]))
        erf == toEigen(PSub(msh.vert[vp], msh.vert[vr]))
        ern == toEigen(PSub(msh.vert[vo], msh.vert[vr]))
        cotan_l == cotan(elf, eln)
        cotan_r == cotan(ern, erf)
    IN  RDiv(RAdd(cotan_l, cotan_r), FromInt(2))

\* one pass of the do-while body from cursor p around vertex vp
WalkStep(msh, ff, p, vp) ==
    LET po == WalkOpposite(msh, p)
        pl == WalkLeft(msh, po)
        pr == WalkRight(msh, ff, pl)
        pb == WalkBack(msh, ff, pr)
    IN  [vo |-> po.v, vl |-> pl.v, vr |-> pr.v, back |-> pb,
         weight |-> CotanWeight(msh, vp, po.v, pl.v, pr.v),
         next |-> WalkNextEdge(msh, ff, pb)]

\* a diagonal entry without the sign change
DiagonalEntryUnnegated(L, i, n) == RowSum(L, i, n)

\* the diagonal entry of row i
DiagonalEntry(L, i, n) == RNeg(RowSum(L, i, n))

RECURSIVE DiagonalRows(_, _, _)
DiagonalRows(L, i, n) ==
    IF i >= n THEN L
    ELSE DiagonalRows(SetCoeff(L, i, i, DiagonalEntry(L, i, n)), i + 1, n)

\* ------------------------------------------------------------------------
\* computeAverageEdgeLength and the heat-diffusion system
\* ------------------------------------------------------------------------
HalfPerimeter(msh, f) ==
    LET p0 == FP(msh, f, 0)
        p1 == FP(msh, f, 1)
        p2 == FP(msh, f, 2)
        e2 == EdgeLength(p1, p0)
        e1 == EdgeLength(p2, p0)
        e0 == EdgeLength(p2, p1)
    IN  RDiv(RAdd(RAdd(e0, e1), e2), FromInt(2))

RECURSIVE TotalLength(_, _, _)
TotalLength(msh, f, n) ==
    IF f >= n THEN Zero
    ELSE RAdd(HalfPerimeter(msh, f), TotalLength(msh, f + 1, n))

\* the sum runs over the whole face container, the divisor uses FN()
computeAverageEdgeLength(msh) ==
    RDiv(TotalLength(msh, 0, Cardinality(FaceIdx(msh))),
         RMul(RDiv(FromInt(3), FromInt(2)), FromInt(FN(msh))))

Timestep(mm, avg_edge_len) == RMul(RMul(mm, avg_edge_len), avg_edge_len)

\* mass - timestep * cotanOperator: the stored coefficients of both operands
HeatSystem(mass, ts, L) ==
    [k \in (DOMAIN mass) \cup (DOMAIN L) |->
        RSub(Coeff(mass, k[1], k[2]), RMul(ts, Coeff(L, k[1], k[2])))]

\* ------------------------------------------------------------------------
\* Eigen::SimplicialLDLT, factorizing in the order of the indices
\* ------------------------------------------------------------------------
RECURSIVE LDotD(_, _, _, _, _)
\* sum over p < j of Lk[p] * D[p] * Lj[p]
LDotD(Lk, Lj, D, p, j) ==
    IF p >= j THEN Zero
    ELSE RAdd(RMul(RMul(Lk[p], D[p]), Lj[p]), LDotD(Lk, Lj, D, p + 1, j))

RECURSIVE LdltRow(_, _, _, _, _)
\* row k of L, column by column: row[j] for j < k
LdltRow(A, fac, k, j, row) ==
    IF j >= k THEN row
    ELSE LdltRow(A, fac, k, j + 1,
                 [row EXCEPT ![j] =
                     RDiv(RSub(Coeff(A, k, j), LDotD(row, fac.L[j], fac.D, 0, j)),
                          fac.D[j])])

RECURSIVE LdltFrom(_, _, _, _)
\* factorize: rows k .. n-1; a pivot that is exactly zero stops the
\* factorization with info = NumericalIssue and leaves the remaining rows as
\* they were
LdltFrom(A, n, k, fac) ==
    IF k >= n THEN fac
    ELSE LET row == LdltRow(A, fac, k, 0, fac.L[k])
             d   == RSub(Coeff(A, k, k), LDotD(row, row, fac.D, 0, k))
             nf  == [fac EXCEPT !.L[k] = row, !.D[k] = d]
         IN  IF d = Zero THEN [nf EXCEPT !.info = "NumericalIssue"]
             ELSE LdltFrom(A, n, k + 1, nf)

\* solver.compute(A)
Factorize(A, n) ==
    LdltFrom(A, n, 0,
             [L |-> [i \in 0..(n - 1) |-> [j \in 0..(n - 1) |-> Zero]],
              D |-> [i \in 0..(n - 1) |-> Zero],
              info |-> "Success"])

RECURSIVE RowDot(_, _, _, _)
RowDot(r, x, j, n) ==
    IF j >= n THEN Zero ELSE RAdd(RMul(r[j], x[j]), RowDot(r, x, j + 1, n))

RECURSIVE ForwardSubst(_, _, _, _)
ForwardSubst(fac, y, i, n) ==
    IF i >= n THEN y
    ELSE ForwardSubst(fac, [y EXCEPT ![i] = RSub(y[i], RowDot(fac.L[i], y, 0, i))],
                      i + 1, n)

RECURSIVE ColDot(_, _, _, _, _)
ColDot(fac, x, i, j, n) ==
    IF j >= n THEN Zero
    ELSE RAdd(RMul(fac.L[j][i], x[j]), ColDot(fac, x, i, j + 1, n))

RECURSIVE BackwardSubst(_, _, _, _)
BackwardSubst(fac, x, i, n) ==
    IF i < 0 THEN x
    ELSE BackwardSubst(fac, [x EXCEPT ![i] = RSub(x[i], ColDot(fac, x, i, i + 1, n))],
                       i - 1, n)

\* L^-T D^-1 L^-1 b
LdltSolve(fac, b, n) ==
    LET y == ForwardSubst(fac, b, 0, n)
        z == [i \in 0..(n - 1) |-> RDiv(y[i], fac.D[i])]
    IN  BackwardSubst(fac, z, n - 1, n)

\* solver.solve(b): when info is not Success the solve returns at once and
\* the destination keeps whatever its storage held
Solve(fac, b, n, uninit) ==
    IF fac.info = "Success" THEN LdltSolve(fac, b, n)
    ELSE [i \in 0..(n - 1) |-> uninit]

\* ------------------------------------------------------------------------
\* computeVertexGradient
\* ------------------------------------------------------------------------
Normalized(u) == VDivS(u, VNorm(u))

\* row i of the gradient field: face i of the container, its stored normal
\* and its stored area
FaceGradient(msh, i, nrm, q, heat, ids) ==
    LET p0 == FP(msh, i, 0)
        p1 == FP(msh, i, 1)
        p2 == FP(msh, i, 2)
        n  == Normalized(nrm[i])
        faceArea == q[i]
        e0 == Normalized(toEigen(PSub(p2, p1)))
        e1 == Normalized(toEigen(PSub(p0, p2)))
        e2 == Normalized(toEigen(PSub(p1, p0)))
        g0 == Cross(n, e0)
        g1 == Cross(n, e1)
        g2 == Cross(n, e2)
    IN  VDivS(VAdd(VAdd(VScale(g0, heat[Lookup(ids, FV(msh, i, 0))]),
                        VScale(g1, heat[Lookup(ids, FV(msh, i, 1))])),
                   VScale(g2, heat[Lookup(ids, FV(msh, i, 2))])),
              RMul(FromInt(2), faceArea))

computeVertexGradient(msh, nrm, q, heat, ids) ==
    [i \in 0..(FN(msh) - 1) |-> FaceGradient(msh, i, nrm, q, heat, ids)]

\* the keys computeVertexGradient looks up
GradientKeys(msh) == {FV(msh, i, j) : i \in 0..(FN(msh) - 1), j \in 0..2}

\* ------------------------------------------------------------------------
\* normalizeVectorField
\* ------------------------------------------------------------------------
NegateField(field) == [i \in DOMAIN field |-> VNeg(field[i])]

normalizeVectorField(field) == [i \in DOMAIN field |-> Normalized(field[i])]

\* ------------------------------------------------------------------------
\* computeVertexDivergence
\* ------------------------------------------------------------------------
\* the contribution of the face fp, where the vertex has local index index
CornerDivergence(msh, fp, index, x) ==
    LET p0 == FP(msh, fp, 0)
        p1 == FP(msh, fp, 1)
        p2 == FP(msh, fp, 2)
        el == toEigen(IF index = 0 THEN PSub(p2, p0)
                      ELSE IF index = 1 THEN PSub(p0, p1) ELSE PSub(p1, p2))
        er == toEigen(IF index = 0 THEN PSub(p1, p0)
                      ELSE IF index = 1 THEN PSub(p2, p1) ELSE PSub(p0, p2))
        eo == toEigen(IF index = 0 THEN PSub(p1, p2)
                      ELSE IF index = 1 THEN PSub(p0, p2) ELSE PSub(p0, p1))
        cotl == cotan(el, eo)
        cotr == cotan(er, eo)
        eln == VDivS(el, RNeg(VNorm(el)))
        ern == VDivS(er, VNorm(er))
    IN  RDiv(RAdd(RMul(cotl, Dot(ern, x)), RMul(cotr, Dot(eln, x))), FromInt(2))

VertexDivergence(msh, star, field, ids) ==
    SeqSum([j \in 1..Len(star) |->
               CornerDivergence(msh, star[j][1], star[j][2],
                                field[Lookup(ids, star[j][1])])])

computeVertexDivergence(msh, vvf, fvf, field, ids) ==
    [i \in 0..(VN(msh) - 1) |->
        VertexDivergence(msh, VFStarVF(vvf, fvf, i), field, ids)]

\* the keys computeVertexDivergence looks up
StarFaces(star) == {star[j][1] : j \in 1..Len(star)}

DivergenceKeys(msh, vvf, fvf) ==
    UNION {StarFaces(VFStarVF(vvf, fvf, i)) : i \in 0..(VN(msh) - 1)}

\* ------------------------------------------------------------------------
\* the state of a call of computeHeatMethodGeodesic[Verbose] on a mesh
\* ------------------------------------------------------------------------
VARIABLES
    mesh,           \* the vertex and face containers (read-only)
    init_cond,      \* the initial-condition vector
    m,              \* the diffusion constant
    verbose,        \* TRUE for computeHeatMethodGeodesicVerbose
    run,            \* number of the current call on this mesh
    pc,             \* the stage the call is about to execute
    faceQ,          \* fi->Q(): quality of each face of the container
    faceN,          \* fi->N(): normal of each face
    vertVF,         \* vi->VFp(), vi->VFi()
    faceVF,         \* fi->VFp(j), fi->VFi(j)
    faceFF,         \* fi->FFp(z), fi->FFi(z)
    mass,
    cotanOperator,
    vertex_ids,     \* the pointer-to-id map of the stage in progress
    face_ids,
    vp,             \* buildCotanMatrix: index of the vertex being walked
    pos,            \* buildCotanMatrix: the cursor
    start,          \* buildCotanMatrix: the cursor the walk started from
    ring,           \* the opposite vertices vo processed around vp so far
    timestep,
    system1,
    info1,          \* solver.info() after the first factorization
    heatflow,
    heatGradient,
    normalizedVectorField,
    divergence,
    system2,
    info2,          \* solver.info() after the second factorization
    geodesicDistance,
    console,        \* the ERROR lines written to std::cout
    results,        \* the vectors returned by the calls so far
    stages,         \* the stages the current call has completed, in order
    qWrittenIn      \* for each face, the call that last wrote its quality

vars == <<mesh, init_cond, m, verbose, run, pc, faceQ, faceN, vertVF, faceVF,
          faceFF, mass, cotanOperator, vertex_ids, face_ids, vp, pos, start,
          ring, timestep, system1, info1, heatflow, heatGradient,
          normalizedVectorField, divergence, system2, info2, geodesicDistance,
          console, results, stages, qWrittenIn>>

meshVars == <<faceQ, faceN, vertVF, faceVF, faceFF, qWrittenIn>>
inputVars == <<mesh, init_cond, m, verbose, run>>
cotanVars == <<cotanOperator, vertex_ids, vp, pos, start, ring>>
heatVars == <<timestep, system1, info1, heatflow>>
fieldVars == <<heatGradient, normalizedVectorField, face_ids, divergence>>
poissonVars == <<system2, info2, geodesicDistance>>

\* calls made on the same mesh, one after the other
MaxRuns == 2

\* values a face quality may hold before the first call writes it
StaleQualities == {Zero, FromInt(7)}

\* values a face normal may hold before the first call writes it
StaleNormals == {ZeroVec, <<Zero, Zero, One>>}

\* what a vector the solve never wrote may hold
Uninitialized == {Zero, FromInt(5)}

\* a unit impulse at vertex s
Impulse(msh, s) == [k \in 0..(VN(msh) - 1) |-> IF k = s THEN One ELSE Zero]

NoPos == [f |-> Null, z |-> 0, v |-> Null]

\* the locals of a call before the call creates them
FreshLocals ==
    /\ mass = EmptyMatrix
    /\ cotanOperator = EmptyMatrix
    /\ vertex_ids = <<>>
    /\ face_ids = <<>>
    /\ vp = 0
    /\ pos = NoPos
    /\ start = NoPos
    /\ ring = <<>>
    /\ timestep = Zero
    /\ system1 = EmptyMatrix
    /\ info1 = "None"
    /\ heatflow = <<>>
    /\ heatGradient = <<>>
    /\ normalizedVectorField = <<>>
    /\ divergence = <<>>
    /\ system2 = EmptyMatrix
    /\ info2 = "None"
    /\ geodesicDistance = <<>>
    /\ stages = <<>>

InitOn(meshes) ==
    /\ mesh \in meshes
    /\ \E s \in VertIdx(mesh) : init_cond = Impulse(mesh, s)
    /\ m = One
    /\ verbose \in BOOLEAN
    /\ run = 1
    /\ pc = "topology"
    /\ \E q \in StaleQualities : faceQ = [f \in FaceIdx(mesh) |-> q]
    /\ \E n \in StaleNormals : faceN = [f \in FaceIdx(mesh) |-> n]
    /\ vertVF = [v \in VertIdx(mesh) |-> <<Null, 0>>]
    /\ faceVF = [f \in FaceIdx(mesh) |-> [j \in 0..2 |-> <<Null, 0>>]]
    /\ faceFF = [f \in FaceIdx(mesh) |-> [z \in 0..2 |-> <<f, z>>]]
    /\ qWrittenIn = [f \in FaceIdx(mesh) |-> 0]
    /\ console = {}
    /\ results = <<>>
    /\ FreshLocals

Init == InitOn(Meshes)

\* ------------------------------------------------------------------------
\* computeHeatMethodGeodesic, stage by stage
\* ------------------------------------------------------------------------
Done(stage) == stages' = Append(stages, stage)

\* UpdateTopology::VertexFace, UpdateTopology::FaceFace and
\* UpdateNormal::PerFaceNormalized; the adjacency and the normal of a
\* deleted face are left as they are
UpdateTopologyAndNormals ==
    /\ pc = "topology"
    /\ vertVF' = [v \in VertIdx(mesh) |-> VertexFaceHead(mesh, v)]
    /\ faceVF' = [f \in FaceIdx(mesh) |->
                    IF mesh.fdel[f] THEN faceVF[f]
                    ELSE [j \in 0..2 |-> VertexFaceNext(mesh, f, j)]]
    /\ faceFF' = [f \in FaceIdx(mesh) |->
                    IF mesh.fdel[f] THEN faceFF[f]
                    ELSE [z \in 0..2 |-> FaceFaceAcross(mesh, f, z)]]
    /\ faceN' = [f \in FaceIdx(mesh) |->
                    IF mesh.fdel[f] THEN faceN[f] ELSE TriangleNormalized(mesh, f)]
    /\ pc' = "mass"
    /\ Done("topology")
    /\ UNCHANGED <<inputVars, faceQ, qWrittenIn, mass, cotanVars, heatVars,
                   fieldVars, poissonVars, console, results>>

\* buildMassMatrix on a fresh VN x VN matrix
BuildMassMatrix ==
    /\ pc = "mass"
    /\ faceQ' = StoreFaceAreas(mesh, faceQ)
    /\ qWrittenIn' = [f \in FaceIdx(mesh) |->
                         IF f \in AreaLoopFaces(mesh) THEN run ELSE qWrittenIn[f]]
    /\ mass' = MassRows(mesh, faceQ', vertVF, faceVF, EmptyMatrix, 0)
    /\ pc' = "cotan"
    /\ Done("mass")
    /\ UNCHANGED <<inputVars, faceN, vertVF, faceVF, faceFF, cotanVars, heatVars,
                   fieldVars, poissonVars, console, results>>

\* buildCotanMatrix on a fresh matrix: the map, then the cursor on vertex 0
CotanBegin ==
    /\ pc = "cotan"
    /\ vertex_ids' = BuildIds(VN(mesh))
    /\ cotanOperator' = EmptyMatrix
    /\ vp' = 0
    /\ pos' = PosAt(mesh, vertVF[0][1], 0)
    /\ start' = PosAt(mesh, vertVF[0][1], 0)
    /\ ring' = <<>>
    /\ pc' = "walk"
    /\ UNCHANGED <<inputVars, meshVars, mass, heatVars, fieldVars, poissonVars,
                   console, results, stages>>

\* one pass of the do-while body
CotanWalk ==
    /\ pc = "walk"
    /\ LET step == WalkStep(mesh, faceFF, pos, vp)
       IN  /\ cotanOperator' = SetCoeff(cotanOperator, Lookup(vertex_ids, vp),
                                        Lookup(vertex_ids, step.vo), step.weight)
           /\ vertex_ids' = AfterLookup(AfterLookup(vertex_ids, vp), step.vo)
           /\ ring' = Append(ring, step.vo)
           /\ pos' = step.next
           /\ pc' = IF step.next # start THEN "walk" ELSE "ringDone"
    /\ UNCHANGED <<inputVars, meshVars, mass, vp, start, heatVars, fieldVars,
                   poissonVars, console, results, stages>>

\* the next vertex of the outer loop
CotanNextVertex ==
    /\ pc = "ringDone"
    /\ vp + 1 < VN(mesh)
    /\ vp' = vp + 1
    /\ pos' = PosAt(mesh, vertVF[vp + 1][1], vp + 1)
    /\ start' = PosAt(mesh, vertVF[vp + 1][1], vp + 1)
    /\ ring' = <<>>
    /\ pc' = "walk"
    /\ UNCHANGED <<inputVars, meshVars, mass, cotanOperator, vertex_ids, heatVars,
                   fieldVars, poissonVars, console, results, stages>>

\* the last loop of buildCotanMatrix
CotanDiagonal ==
    /\ pc = "ringDone"
    /\ vp + 1 >= VN(mesh)
    /\ cotanOperator' = DiagonalRows(cotanOperator, 0, VN(mesh))
    /\ pc' = "timestep"
    /\ Done("cotan")
    /\ UNCHANGED <<inputVars, meshVars, mass, vertex_ids, vp, pos, start, ring,
                   heatVars, fieldVars, poissonVars, console, results>>

\* the average edge length, the timestep and mass - timestep * cotanOperator
AssembleHeatSystem ==
    /\ pc = "timestep"
    /\ timestep' = Timestep(m, computeAverageEdgeLength(mesh))
    /\ system1' = HeatSystem(mass, timestep', cotanOperator)
    /\ pc' = "solve1"
    /\ Done("timestep")
    /\ UNCHANGED <<inputVars, meshVars, mass, cotanVars, info1, heatflow,
                   fieldVars, poissonVars, console, results>>

\* what the verbose variant prints after compute() and again after solve();
\* the plain variant never looks at info.  The matrices and vectors the
\* verbose variant prints and the .ply files it saves feed nothing back into
\* the computation and are left out.
Errors(info, afterCompute, afterSolve) ==
    IF verbose /\ info # "Success" THEN {afterCompute, afterSolve} ELSE {}

\* cholesky1(system1) and cholesky1.solve(init_cond)
SolveHeat ==
    /\ pc = "solve1"
    /\ LET fac == Factorize(system1, VN(mesh))
       IN  /\ info1' = fac.info
           /\ \E u \in Uninitialized :
                 heatflow' = Solve(fac, init_cond, VN(mesh), u)
           /\ console' = console \cup Errors(fac.info, "ERROR: Cholesky Factorization 1 failed",
                                                "ERROR: Solving System 1 failed")
    /\ pc' = "gradient"
    /\ Done("solve1")
    /\ UNCHANGED <<inputVars, meshVars, mass, cotanVars, timestep, system1,
                   fieldVars, poissonVars, results>>

RECURSIVE AfterLookups(_, _)
\* the map after looking up every key of a set
AfterLookups(ids, keys) ==
    IF keys = {} THEN ids
    ELSE LET k == CHOOSE x \in keys : TRUE
         IN  AfterLookups(AfterLookup(ids, k), keys \ {k})

\* computeVertexGradient(mesh, heatflow)
Gradient ==
    /\ pc = "gradient"
    /\ heatGradient' = computeVertexGradient(mesh, faceN, faceQ, heatflow,
                                             BuildIds(VN(mesh)))
    /\ vertex_ids' = AfterLookups(BuildIds(VN(mesh)), GradientKeys(mesh))
    /\ pc' = "normalize"
    /\ Done("gradient")
    /\ UNCHANGED <<inputVars, meshVars, mass, cotanOperator, vp, pos, start, ring,
                   heatVars, normalizedVectorField, face_ids, divergence,
                   poissonVars, console, results>>

\* normalizeVectorField(-heatGradient)
Normalize ==
    /\ pc = "normalize"
    /\ normalizedVectorField' = normalizeVectorField(NegateField(heatGradient))
    /\ pc' = "divergence"
    /\ Done("normalize")
    /\ UNCHANGED <<inputVars, meshVars, mass, cotanVars, heatVars, heatGradient,
                   face_ids, divergence, poissonVars, console, results>>

\* computeVertexDivergence(mesh, normalizedVectorField)
Divergence ==
    /\ pc = "divergence"
    /\ divergence' = computeVertexDivergence(mesh, vertVF, faceVF,
                                             normalizedVectorField, BuildIds(FN(mesh)))
    /\ face_ids' = AfterLookups(BuildIds(FN(mesh)), DivergenceKeys(mesh, vertVF, faceVF))
    /\ pc' = "solve2"
    /\ Done("divergence")
    /\ UNCHANGED <<inputVars, meshVars, mass, cotanVars, heatVars, heatGradient,
                   normalizedVectorField, poissonVars, console, results>>

\* system2 = cotanOperator, cholesky2(system2) and cholesky2.solve(divergence)
SolvePoisson ==
    /\ pc = "solve2"
    /\ system2' = cotanOperator
    /\ LET fac == Factorize(cotanOperator, VN(mesh))
       IN  /\ info2' = fac.info
           /\ \E u \in Uninitialized :
                 geodesicDistance' = Solve(fac, divergence, VN(mesh), u)
           /\ console' = console \cup Errors(fac.info, "ERROR: Cholesky Factorization 2 failed",
                                                "ERROR: Solving System 2 failed")
    /\ pc' = "return"
    /\ Done("solve2")
    /\ UNCHANGED <<inputVars, meshVars, mass, cotanVars, heatVars, fieldVars, results>>

\* return geodesicDistance
Return ==
    /\ pc = "return"
    /\ results' = Append(results, geodesicDistance)
    /\ pc' = "done"
    /\ Done("return")
    /\ UNCHANGED <<inputVars, meshVars, mass, cotanVars, heatVars, fieldVars,
                   poissonVars, console>>

\* the caller calls again on the same mesh with the same arguments; the
\* locals of the new call are fresh, the mesh keeps what the call left on it
CallAgain ==
    /\ pc = "done"
    /\ run < MaxRuns
    /\ run' = run + 1
    /\ pc' = "topology"
    /\ mass' = EmptyMatrix
    /\ cotanOperator' = EmptyMatrix
    /\ vertex_ids' = <<>>
    /\ face_ids' = <<>>
    /\ vp' = 0
    /\ pos' = NoPos
    /\ start' = NoPos
    /\ ring' = <<>>
    /\ timestep' = Zero
    /\ system1' = EmptyMatrix
    /\ info1' = "None"
    /\ heatflow' = <<>>
    /\ heatGradient' = <<>>
    /\ normalizedVectorField' = <<>>
    /\ divergence' = <<>>
    /\ system2' = EmptyMatrix
    /\ info2' = "None"
    /\ geodesicDistance' = <<>>
    /\ stages' = <<>>
    /\ UNCHANGED <<mesh, init_cond, m, verbose, meshVars, console, results>>

Next ==
    \/ UpdateTopologyAndNormals
    \/ BuildMassMatrix
    \/ CotanBegin
    \/ CotanWalk
    \/ CotanNextVertex
    \/ CotanDiagonal
    \/ AssembleHeatSystem
    \/ SolveHeat
    \/ Gradient
    \/ Normalize
    \/ Divergence
    \/ SolvePoisson
    \/ Return
    \/ CallAgain

Spec == Init /\ [][Next]_vars

\* ------------------------------------------------------------------------
\* computeVertexGradient alone, on a mesh as the earlier stages leave it
\* ------------------------------------------------------------------------
\* largest value of the scalar fields handed to computeVertexGradient
MaxHeat == 2

ScalarFields(msh) == [VertIdx(msh) -> {FromInt(h) : h \in 1..MaxHeat}]

InitGradient ==
    /\ mesh \in ClosedMeshes
    /\ init_cond = Impulse(mesh, 0)
    /\ m = One
    /\ verbose = FALSE
    /\ run = 1
    /\ pc = "gradient"
    /\ faceQ = StoreFaceAreas(mesh, [f \in FaceIdx(mesh) |-> Zero])
    /\ faceN = [f \in FaceIdx(mesh) |-> TriangleNormalized(mesh, f)]
    /\ vertVF = [v \in VertIdx(mesh) |-> VertexFaceHead(mesh, v)]
    /\ faceVF = [f \in FaceIdx(mesh) |-> [j \in 0..2 |-> VertexFaceNext(mesh, f, j)]]
    /\ faceFF = [f \in FaceIdx(mesh) |-> [z \in 0..2 |-> FaceFaceAcross(mesh, f, z)]]
    /\ qWrittenIn = [f \in FaceIdx(mesh) |-> 1]
    /\ console = {}
    /\ results = <<>>
    /\ mass = EmptyMatrix
    /\ cotanOperator = EmptyMatrix
    /\ vertex_ids = <<>>
    /\ face_ids = <<>>
    /\ vp = 0
    /\ pos = NoPos
    /\ start = NoPos
    /\ ring = <<>>
    /\ timestep = Zero
    /\ system1 = EmptyMatrix
    /\ info1 = "None"
    /\ heatflow \in ScalarFields(mesh)
    /\ heatGradient = <<>>
    /\ normalizedVectorField = <<>>
    /\ divergence = <<>>
    /\ system2 = EmptyMatrix
    /\ info2 = "None"
    /\ geodesicDistance = <<>>
    /\ stages = <<>>

SpecGradient == InitGradient /\ [][Gradient]_vars

\* ------------------------------------------------------------------------
\* vocabulary of the properties
\* ------------------------------------------------------------------------
\* the stage has run to its end in the current call
Completed(stage) == \E k \in 1..Len(stages) : stages[k] = stage

\* relative accuracy asked of a sum of rounded terms
Tolerance == <<1, 4 - MantissaBits, 0>>

\* x is zero up to the tolerance, relative to scale
Negligible(x, scale) ==
    IsFinite(x) /\ ~RLess(RMul(Tolerance, RAbs(scale)), RAbs(x))

\* no face of the mesh has zero area
NoDegenerateFace(msh) == \A f \in LiveFaces(msh) : RLess(Zero, HeronArea(msh, f))

\* the vertices joined to v by an edge
Neighbours(msh, v) ==
    {FV(msh, c[1], j) : c \in Corners(msh, v), j \in 0..2} \ {v}

\* the faces on the edge {a, b}
EdgeFaces(msh, a, b) ==
    {f \in LiveFaces(msh) : \E j, k \in 0..2 : FV(msh, f, j) = a /\ FV(msh, f, k) = b}

\* cotangent of the angle of face f opposite to its edge {a, b}
OppositeCotangent(msh, f, a, b) ==
    LET j == CHOOSE k \in 0..2 : FV(msh, f, k) \notin {a, b}
        o == FP(msh, f, j)
    IN  cotan(toEigen(PSub(msh.vert[a], o)), toEigen(PSub(msh.vert[b], o)))

\* sum of the magnitudes of row i
RowMagnitude(M, i, n) ==
    RowSum([k \in DOMAIN M |-> RAbs(M[k])], i, n)

\* row i without its diagonal coefficient
OffDiagonal(M, i) == [k \in (DOMAIN M) \ {<<i, i>>} |-> M[k]]

RowSumsToZero(M, i, n) ==
    /\ REq(Coeff(M, i, i), RNeg(RowSum(OffDiagonal(M, i), i, n)))
    /\ Negligible(RowSum(M, i, n), RowMagnitude(M, i, n))

\* ------------------------------------------------------------------------
\* the Laplacian
\* ------------------------------------------------------------------------
\* C2, as stated: on every closed, manifold, consistently wound mesh, once
\* buildCotanMatrix has returned, each diagonal entry is minus the sum of the
\* off-diagonal entries of its row and each row sums to zero.
C2_RowsSumToZero ==
    Completed("cotan") =>
        \A ci \in VertIdx(mesh) : RowSumsToZero(cotanOperator, ci, VN(mesh))

\* C2, amended: the same on the closed, manifold, consistently wound meshes
\* that have no face of zero area.
C2_RowsSumToZeroWithoutDegenerateFaces ==
    (Completed("cotan") /\ NoDegenerateFace(mesh)) =>
        \A ci \in VertIdx(mesh) : RowSumsToZero(cotanOperator, ci, VN(mesh))

\* buildCotanMatrix has returned on the corner tetrahedron and row 0 holds
\* three positive weights and a negative diagonal
C2_Witness ==
    /\ pc = "timestep"
    /\ mesh = CornerTetra
    /\ \A cj \in 1..3 : RLess(Zero, Coeff(cotanOperator, 0, cj))
    /\ RLess(Coeff(cotanOperator, 0, 0), Zero)

\* C3: once buildCotanMatrix has returned the matrix is symmetric, the
\* coefficient of an edge (i, j) is the mean of the cotangents of the two
\* angles opposite to the edge, whichever of the two rings wrote it, and a
\* coefficient is non-zero only on an edge or on the diagonal.
C3_SymmetricOnEdges ==
    Completed("cotan") =>
        \A ci, cj \in VertIdx(mesh) :
            /\ Coeff(cotanOperator, ci, cj) = Coeff(cotanOperator, cj, ci)
            /\ Coeff(cotanOperator, ci, cj) # Zero =>
                   (ci = cj \/ cj \in Neighbours(mesh, ci))
            /\ (ci # cj /\ cj \in Neighbours(mesh, ci)) =>
                   \E f, g \in EdgeFaces(mesh, ci, cj) :
                       /\ f # g
                       /\ Coeff(cotanOperator, ci, cj) =
                              RDiv(RAdd(OppositeCotangent(mesh, f, ci, cj),
                                        OppositeCotangent(mesh, g, ci, cj)),
                                   FromInt(2))

\* the Laplacian of the corner tetrahedron is built: the edge (1, 2) lies
\* between a right isosceles face and the equilateral one and both rings
\* wrote the same non-zero weight
C3_Witness ==
    /\ pc = "timestep"
    /\ mesh = CornerTetra
    /\ RLess(Zero, Coeff(cotanOperator, 1, 2))
    /\ <<1, 2>> \in DOMAIN cotanOperator
    /\ <<2, 1>> \in DOMAIN cotanOperator

\* ------------------------------------------------------------------------
\* the mass matrix
\* ------------------------------------------------------------------------
RECURSIVE SumUpTo(_, _)
\* vals[0] + ... + vals[k]
SumUpTo(vals, k) == IF k < 0 THEN Zero ELSE RAdd(SumUpTo(vals, k - 1), vals[k])

\* the area of the surface: the faces that are not deleted
TotalArea(msh) ==
    SumUpTo([f \in FaceIdx(msh) |-> IF msh.fdel[f] THEN Zero ELSE HeronArea(msh, f)],
            Cardinality(FaceIdx(msh)) - 1)

\* the number of one-ring enumerations that return face f
StarCount(msh, f) ==
    Cardinality({v \in VertIdx(msh) : f \in StarFaces(VFStarVF(vertVF, faceVF, v))})

C8_WalkVisitsEachEdgeOnce ==
    /\ pc \in {"walk", "ringDone"} =>
           /\ pos.v = vp
           /\ start = PosAt(mesh, vertVF[vp][1], vp)
           /\ \A j, k \in 1..Len(ring) : ring[j] = ring[k] => j = k
           /\ {ring[k] : k \in 1..Len(ring)} \subseteq Neighbours(mesh, vp)
    /\ pc = "walk" =>
           /\ Len(ring) < Cardinality(Neighbours(mesh, vp))
           /\ (Len(ring) > 0 => pos # start)
    /\ pc = "ringDone" =>
           /\ pos = start
           /\ Len(ring) = Cardinality(Neighbours(mesh, vp))

\* the walk around the apex of the octahedron is back on its start after
\* four iterations
C8_Witness ==
    /\ pc = "ringDone"
    /\ mesh = Octahedron
    /\ vp = 4
    /\ Len(ring) = 4
    /\ pos = start

\* ------------------------------------------------------------------------
\* the order of the stages
\* ------------------------------------------------------------------------
StageOrder ==
    <<"topology", "mass", "cotan", "timestep", "solve1", "gradient", "normalize",
      "divergence", "solve2", "return">>

\* C9: the stages of a call complete in the order of StageOrder, the output
\* of a stage is whole when the stage has completed and untouched before,
\* and from the end of buildMassMatrix on the quality of every face of the
\* container is the area written by the current call.
C9_StagesInOrderAndAreasWritten ==
    /\ Len(stages) <= Len(StageOrder)
    /\ stages = SubSeq(StageOrder, 1, Len(stages))
    /\ Completed("mass") =>
           \A f \in FaceIdx(mesh) :
               qWrittenIn[f] = run /\ faceQ[f] = HeronArea(mesh, f)
    /\ IF Completed("mass") THEN DOMAIN mass = {<<ci, ci>> : ci \in VertIdx(mesh)}
       ELSE mass = EmptyMatrix
    /\ IF Completed("timestep")
       THEN Completed("cotan") /\ system1 = HeatSystem(mass, timestep, cotanOperator)
       ELSE system1 = EmptyMatrix
    /\ IF Completed("solve1") THEN DOMAIN heatflow = VertIdx(mesh) ELSE heatflow = <<>>
    /\ IF Completed("gradient") THEN DOMAIN heatGradient = 0..(FN(mesh) - 1)
       ELSE heatGradient = <<>>
    /\ IF Completed("normalize")
       THEN DOMAIN normalizedVectorField = DOMAIN heatGradient
       ELSE normalizedVectorField = <<>>
    /\ IF Completed("divergence") THEN DOMAIN divergence = VertIdx(mesh)
       ELSE divergence = <<>>
    /\ IF Completed("solve2") THEN DOMAIN geodesicDistance = VertIdx(mesh)
       ELSE geodesicDistance = <<>>
    /\ Completed("return") => results[run] = geodesicDistance

\* the second call on the mesh with a deleted face has computed its
\* gradient, and the quality of every face, the deleted one too, was written
\* by this call
C9_Witness ==
    /\ pc = "normalize"
    /\ run = 2
    /\ mesh = PillowDeletedFace
    /\ qWrittenIn[0] = 2
    /\ stages = SubSeq(StageOrder, 1, 6)

\* ------------------------------------------------------------------------
\* the maps from pointers to indices
\* ------------------------------------------------------------------------
\* C10, as stated: every key the three operators look up is a key the map
\* was built with, mapped to its position in the container; no lookup adds
\* a key.
C10_LookupsFindTheirKeys ==
    /\ DOMAIN vertex_ids \subseteq 0..(VN(mesh) - 1)
    /\ \A k \in DOMAIN vertex_ids : vertex_ids[k] = k
    /\ DOMAIN face_ids \subseteq 0..(FN(mesh) - 1)
    /\ \A k \in DOMAIN face_ids : face_ids[k] = k

\* ------------------------------------------------------------------------
\* failures
\* ------------------------------------------------------------------------
AfterSolve1 == {"gradient", "normalize", "divergence", "solve2", "return"}

\* C1, as stated: when a factorization fails the call runs none of the later
\* stages and returns no vector.
C1_FailedFactorizationEndsTheCall ==
    /\ info1 = "NumericalIssue" => \A st \in AfterSolve1 : ~Completed(st)
    /\ info2 = "NumericalIssue" => ~Completed("return")

\* C7, as stated: when buildMassMatrix has stored a zero mass the call does
\* not go on to assemble and solve the heat system and return a vector.
C7_ZeroMassEndsTheCall ==
    (Completed("mass") /\ \E ci \in VertIdx(mesh) : Coeff(mass, ci, ci) = Zero) =>
        \A st \in {"timestep", "solve1", "return"} : ~Completed(st)

\* C5, as stated: the calls made on the same mesh with the same arguments
\* return the same vector.
C5_CallsReturnTheSame ==
    \A ca, cb \in 1..Len(results) : results[ca] = results[cb]

\* C5, for the calls whose factorizations succeed: a later call whose two
\* factorizations succeeded returned what every earlier call returned.
C5_CallsReturnTheSameWhenFactorized ==
    (pc = "done" /\ info1 = "Success" /\ info2 = "Success") =>
        \A ca \in 1..Len(results) : results[ca] = results[run]

\* the second call has returned the distances of the corner tetrahedron to
\* vertex 1, finite and not all equal
C5_Witness ==
    /\ pc = "done"
    /\ run = 2
    /\ mesh = CornerTetra
    /\ init_cond = Impulse(mesh, 1)
    /\ info1 = "Success"
    /\ info2 = "Success"
    /\ \A ci \in VertIdx(mesh) : IsFinite(results[2][ci])
    /\ results[2][0] # results[2][1]

\* ------------------------------------------------------------------------
\* the gradient of a constant field
\* ------------------------------------------------------------------------
Constant(field) == \A ci, cj \in DOMAIN field : field[ci] = field[cj]

\* C4, as stated: on a mesh of non-degenerate triangles the gradient of a
\* field with the same value at every vertex is the zero vector on every
\* face, up to rounding.
C4_ConstantFieldHasZeroGradient ==
    (Completed("gradient") /\ NoDegenerateFace(mesh) /\ Constant(heatflow)) =>
        \A f \in DOMAIN heatGradient : \A k \in 1..3 :
            Negligible(heatGradient[f][k], heatflow[0])

====
